---- MODULE Spec2Model ----
(***************************************************************************)
(* Model of sps-battleships: the attack planner (strategy/strategy.py,     *)
(* class Strategy) and the board placer (board_setup/board_setup.py,       *)
(* class BoardSetup).  Coordinates are <<x, y>> with x the column and y    *)
(* the row, both zero-based, as in the source.                             *)
(***************************************************************************)
EXTENDS Integers, Sequences, FiniteSets, TLC

\* ------------------------------------------------------------------ bounds
\* Grid of the planner driven through its public methods in any order.
ApiCols == 3
ApiRows == 2
\* Number of register_attack calls explored from a fresh planner.
MaxCalls == 2
\* Grid of the planner driven by the harness loop against a true grid.
GameCols == 5
GameRows == 1
\* Grid and retry budgets of the board placer.
PlaceCols == 3
PlaceRows == 3
MaxTries == 2
MaxRestarts == 1
\* Number of calls made on one BoardSetup object.
MaxBoardCalls == 4

VARIABLES
  rows,             \* Strategy.rows
  cols,             \* Strategy.cols
  ships_dict,       \* Strategy.ships_dict: ship id -> remaining count
  enemy_board,      \* Strategy.enemy_board[y][x] in {"?", "H", "M"}
  shots_fired,      \* Strategy.shots_fired
  missed_shots,     \* Strategy.missed_shots
  hit_queue,        \* Strategy.hit_queue (list, front = index 1)
  current_hits,     \* Strategy.current_hits (list)
  available_shots,  \* Strategy.available_shots
  last,             \* the last call made on the planner and its outcome
  ncalls,           \* number of register_attack calls made so far
  registered,       \* history: coordinates passed to register_attack
  pruned,           \* history: in-bounds neighbours of the runs resolved by a sink
  pc,               \* position of the harness loop
  fleet,            \* the harness's true grid: set of ship instances
  struck,           \* the harness's true grid: ship cells hit so far
  b_rows,           \* BoardSetup.rows
  b_cols,           \* BoardSetup.cols
  b_ships_dict,     \* BoardSetup.ships_dict: ship id -> count
  board,            \* BoardSetup.board[y][x]: 0 = water, else the ship id
  work,             \* place_ships: the grid under construction
  todo,             \* place_ships: ids of the instances still to place
  tries,            \* place_ships: failed samples for the current instance
  restarts,         \* place_ships: restarts from the empty grid so far
  placed,           \* place_ships: the instances on the grid under construction
  p_pc,             \* place_ships: "idle", "placing", "placed" or "failed"
  b_last            \* the last call made on the BoardSetup object and its result

vars == <<rows, cols, ships_dict, enemy_board, shots_fired, missed_shots,
          hit_queue, current_hits, available_shots, last, ncalls,
          registered, pruned, pc, fleet, struck,
          b_rows, b_cols, b_ships_dict, board, work, todo, tries, restarts,
          placed, p_pc, b_last>>

plannerVars == <<rows, cols, ships_dict, enemy_board, shots_fired, missed_shots,
                 hit_queue, current_hits, available_shots, last, ncalls,
                 registered, pruned, pc, fleet, struck>>

boardVars == <<b_rows, b_cols, b_ships_dict, board, work, todo, tries,
               restarts, placed, p_pc, b_last>>

strategyVars == <<rows, cols, ships_dict, enemy_board, shots_fired,
                  missed_shots, hit_queue, current_hits, available_shots>>

\* ------------------------------------------------------------ helpers
Cells(c, r) == {<<x, y>> : x \in 0..(c - 1), y \in 0..(r - 1)}

InBounds(x, y) == 0 <= x /\ x < cols /\ 0 <= y /\ y < rows

SetOfSeq(s) == {s[i] : i \in 1..Len(s)}

Min(S) == CHOOSE m \in S : \A n \in S : m <= n
Max(S) == CHOOSE m \in S : \A n \in S : m >= n

Adjacent(a, b) ==
  \/ (a[1] = b[1] /\ (a[2] = b[2] + 1 \/ a[2] = b[2] - 1))
  \/ (a[2] = b[2] /\ (a[1] = b[1] + 1 \/ a[1] = b[1] - 1))

RECURSIVE SumOver(_, _)
SumOver(f, D) ==
  IF D = {} THEN 0
  ELSE LET k == CHOOSE k \in D : TRUE IN f[k] + SumOver(f, D \ {k})

\* sum(self.ships_dict.values())
RemainingSum(d) == SumOver(d, DOMAIN d)

\* Python list indexing: lst[i] for a list of length n.  A negative index
\* counts from the end; an index outside [-n, n) raises IndexError (-1 here).
PyIndex(i, n) ==
  IF 0 <= i /\ i < n THEN i
  ELSE IF i < 0 /\ i >= -n THEN n + i
  ELSE -1

\* ships_dict of the test fixtures small_strategy and bigger_strategy.
SmallCatalog == (1 :> 1) @@ (2 :> 1)
BiggerCatalog == (1 :> 2) @@ (2 :> 1) @@ (3 :> 1)

\* ------------------------------------------------------------ Strategy
\* The planner's fields as one value; the methods below map it to the value
\* after the call.  rows and cols never change after construction.
Cur ==
  [ships_dict |-> ships_dict, enemy_board |-> enemy_board,
   shots_fired |-> shots_fired, missed_shots |-> missed_shots,
   hit_queue |-> hit_queue, current_hits |-> current_hits,
   available_shots |-> available_shots]

SetPlanner(st) ==
  /\ ships_dict' = st.ships_dict
  /\ enemy_board' = st.enemy_board
  /\ shots_fired' = st.shots_fired
  /\ missed_shots' = st.missed_shots
  /\ hit_queue' = st.hit_queue
  /\ current_hits' = st.current_hits
  /\ available_shots' = st.available_shots
  /\ UNCHANGED <<rows, cols>>

\* Strategy.__init__
StrategyInit(r, c, d) ==
  /\ rows = r
  /\ cols = c
  /\ ships_dict = d
  /\ enemy_board = [y \in 0..(r - 1) |-> [x \in 0..(c - 1) |-> "?"]]
  /\ shots_fired = {}
  /\ missed_shots = {}
  /\ hit_queue = <<>>
  /\ current_hits = <<>>
  /\ available_shots = Cells(c, r)

\* Strategy.get_adjacent_cells
GetAdjacentCells(st, x, y) ==
  SelectSeq(<< <<x - 1, y>>, <<x + 1, y>>, <<x, y - 1>>, <<x, y + 1>> >>,
            LAMBDA c : 0 <= c[1] /\ c[1] < cols /\ 0 <= c[2] /\ c[2] < rows
                       /\ c \in st.available_shots)

\* get_target_cells that proposes the neighbours of every cell of the run.
GetTargetCellsAllNeighbours(st) ==
  LET hits == st.current_hits
      RECURSIVE All(_)
      All(i) == IF i > Len(hits) THEN <<>>
                ELSE GetAdjacentCells(st, hits[i][1], hits[i][2]) \o All(i + 1)
  IN All(1)

\* Strategy.get_target_cells (the run is never empty when it is called)
GetTargetCells(st) ==
  LET hits == st.current_hits IN
  IF Len(hits) = 1 THEN GetAdjacentCells(st, hits[1][1], hits[1][2])
  ELSE
    LET xs == {hits[i][1] : i \in 1..Len(hits)}
        ys == {hits[i][2] : i \in 1..Len(hits)}
        targets ==
          IF Cardinality(xs) = 1
          THEN << <<hits[1][1], Min(ys) - 1>>, <<hits[1][1], Max(ys) + 1>> >>
          ELSE << <<Min(xs) - 1, hits[1][2]>>, <<Max(xs) + 1, hits[1][2]>> >>
    IN SelectSeq(targets, LAMBDA c : c \in st.available_shots)

\* identify_sunk_ship without the test that the count is positive.
IdentifySunkShipUnguarded(st) ==
  LET ship_size == Len(st.current_hits)
      d == st.ships_dict
  IN IF ship_size \in DOMAIN d
     THEN [st EXCEPT !.ships_dict[ship_size] = d[ship_size] - 1]
     ELSE st

\* Strategy.identify_sunk_ship
IdentifySunkShip(st) ==
  LET ship_size == Len(st.current_hits)
      d == st.ships_dict
  IN IF ship_size \in DOMAIN d /\ d[ship_size] > 0
     THEN [st EXCEPT !.ships_dict[ship_size] = d[ship_size] - 1]
     ELSE st

\* mark_surrounding_cells that writes 'M' and leaves the candidate set alone.
MarkSurroundingCellsBoardOnly(st) ==
  LET marked ==
        {n \in Cells(cols, rows) :
           \E h \in SetOfSeq(st.current_hits) : Adjacent(n, h)}
  IN [st EXCEPT
        !.enemy_board = [y \in DOMAIN @ |-> [x \in DOMAIN @[y] |->
                           IF <<x, y>> \in marked THEN "M" ELSE @[y][x]]]]

\* mark_surrounding_cells that only takes the neighbours of the last hit.
MarkSurroundingCellsLastHit(st) ==
  LET h == st.current_hits[Len(st.current_hits)]
      marked == {n \in Cells(cols, rows) : Adjacent(n, h)}
  IN [st EXCEPT
        !.available_shots = @ \ marked,
        !.enemy_board = [y \in DOMAIN @ |-> [x \in DOMAIN @[y] |->
                           IF <<x, y>> \in marked THEN "M" ELSE @[y][x]]]]

\* mark_surrounding_cells that reaches two cells from the run along a row
\* or a column.
MarkSurroundingCellsReachTwo(st) ==
  LET marked ==
        {n \in Cells(cols, rows) :
           \E h \in SetOfSeq(st.current_hits) :
             \/ (n[2] = h[2] /\ n[1] # h[1] /\ n[1] - h[1] \in -2..2)
             \/ (n[1] = h[1] /\ n[2] # h[2] /\ n[2] - h[2] \in -2..2)}
  IN [st EXCEPT
        !.available_shots = @ \ marked,
        !.enemy_board = [y \in DOMAIN @ |-> [x \in DOMAIN @[y] |->
                           IF <<x, y>> \in marked THEN "M" ELSE @[y][x]]]]

\* mark_surrounding_cells that also takes the diagonal neighbours.
MarkSurroundingCellsDiagonal(st) ==
  LET marked ==
        {n \in Cells(cols, rows) :
           \E h \in SetOfSeq(st.current_hits) :
             n # h /\ n[1] - h[1] \in -1..1 /\ n[2] - h[2] \in -1..1}
  IN [st EXCEPT
        !.available_shots = @ \ marked,
        !.enemy_board = [y \in DOMAIN @ |-> [x \in DOMAIN @[y] |->
                           IF <<x, y>> \in marked THEN "M" ELSE @[y][x]]]]

\* Strategy.mark_surrounding_cells: every in-bounds orthogonal neighbour of
\* a cell of the run leaves the candidate set and is written 'M'.
MarkSurroundingCells(st) ==
  LET marked ==
        {n \in UNION {{<<h[1] - 1, h[2]>>, <<h[1] + 1, h[2]>>,
                       <<h[1], h[2] - 1>>, <<h[1], h[2] + 1>>} :
                      h \in SetOfSeq(st.current_hits)} :
           0 <= n[1] /\ n[1] < cols /\ 0 <= n[2] /\ n[2] < rows}
  IN [st EXCEPT
        !.available_shots = @ \ marked,
        !.enemy_board = [y \in DOMAIN @ |-> [x \in DOMAIN @[y] |->
                           IF <<x, y>> \in marked THEN "M" ELSE @[y][x]]]]

\* Strategy.all_ships_sunk
AllShipsSunk == \A k \in DOMAIN ships_dict : ships_dict[k] = 0

\* Strategy.get_remaining_ships: the dict it returns and the state it leaves.
GetRemainingShips(st) == [ret |-> st.ships_dict, st |-> st]

\* Strategy.all_ships_sunk as a call: its result and the state it leaves.
AllShipsSunkCall(st) ==
  [ret |-> \A k \in DOMAIN st.ships_dict : st.ships_dict[k] = 0, st |-> st]

\* Strategy.get_random_shot: None when no candidate is left, else any one.
GetRandomShot(st) ==
  IF st.available_shots = {}
  THEN {[out |-> "None", x |-> 0, y |-> 0, src |-> "random", st |-> st]}
  ELSE {[out |-> "coord", x |-> c[1], y |-> c[2], src |-> "random", st |-> st] :
          c \in st.available_shots}

\* get_next_attack that pops the back of the queue (hit_queue.pop()).
GetNextAttackLifo(st) ==
  IF st.hit_queue # <<>>
  THEN LET n == Len(st.hit_queue) IN
       {[out |-> "coord", x |-> st.hit_queue[n][1], y |-> st.hit_queue[n][2],
         src |-> "queue", st |-> [st EXCEPT !.hit_queue = SubSeq(@, 1, n - 1)]]}
  ELSE GetRandomShot(st)

\* Strategy.get_next_attack: the possible results, each with the state it
\* leaves (hit_queue.pop(0) when the queue is not empty).
GetNextAttack(st) ==
  IF st.hit_queue # <<>>
  THEN {[out |-> "coord", x |-> Head(st.hit_queue)[1], y |-> Head(st.hit_queue)[2],
         src |-> "queue", st |-> [st EXCEPT !.hit_queue = Tail(@)]]}
  ELSE GetRandomShot(st)

\* register_attack that resolves the ship on every hit, sunk or not.
RegisterHitAlwaysIdentify(st, x, y, is_sunk) ==
  LET st2 == [st EXCEPT !.current_hits = Append(@, <<x, y>>)]
  IN IF is_sunk
     THEN [MarkSurroundingCells(IdentifySunkShip(st2)) EXCEPT
             !.hit_queue = <<>>, !.current_hits = <<>>]
     ELSE [IdentifySunkShip(st2) EXCEPT !.hit_queue = @ \o GetTargetCells(st2)]

\* Strategy.register_attack, the part that handles a hit: the cell joins the
\* run; a sink resolves the run, anything else extends the pending queue.
RegisterHit(st, x, y, is_sunk) ==
  LET st2 == [st EXCEPT !.current_hits = Append(@, <<x, y>>)]
  IN IF is_sunk
     THEN [MarkSurroundingCells(IdentifySunkShip(st2)) EXCEPT
             !.hit_queue = <<>>, !.current_hits = <<>>]
     ELSE [st2 EXCEPT !.hit_queue = @ \o GetTargetCells(st2)]

\* register_attack that gives up the engagement on a miss: the pending queue
\* and the run are cleared.
RegisterAttackMissEndsTarget(st, x, y, is_hit, is_sunk) ==
  LET ry == PyIndex(y, rows)
      rx == PyIndex(x, cols)
      st0 == [st EXCEPT !.shots_fired = @ \cup {<<x, y>>},
                        !.available_shots = @ \ {<<x, y>>}]
  IN
  IF ry = -1 \/ rx = -1 THEN [st |-> st0, out |-> "IndexError"]
  ELSE
    LET st1 == [st0 EXCEPT !.enemy_board[ry][rx] = IF is_hit THEN "H" ELSE "M"]
    IN
    IF ~is_hit
    THEN [st |-> [st1 EXCEPT !.missed_shots = @ \cup {<<x, y>>},
                             !.hit_queue = <<>>, !.current_hits = <<>>],
          out |-> "ok"]
    ELSE [st |-> RegisterHit(st1, x, y, is_sunk), out |-> "ok"]

\* Strategy.register_attack(x, y, is_hit, is_sunk): the state it leaves and
\* how it ends.  enemy_board[y][x] raises IndexError after the two set
\* updates, or wraps a negative index.
RegisterAttack(st, x, y, is_hit, is_sunk) ==
  LET ry == PyIndex(y, rows)
      rx == PyIndex(x, cols)
      st0 == [st EXCEPT !.shots_fired = @ \cup {<<x, y>>},
                        !.available_shots = @ \ {<<x, y>>}]
  IN
  IF ry = -1 \/ rx = -1 THEN [st |-> st0, out |-> "IndexError"]
  ELSE
    LET st1 == [st0 EXCEPT !.enemy_board[ry][rx] = IF is_hit THEN "H" ELSE "M"]
    IN
    IF ~is_hit
    THEN [st |-> [st1 EXCEPT !.missed_shots = @ \cup {<<x, y>>}], out |-> "ok"]
    ELSE [st |-> RegisterHit(st1, x, y, is_sunk), out |-> "ok"]

\* ------------------------------------------------- the calls and their history
NoCall == [op |-> "none", x |-> 0, y |-> 0, is_hit |-> FALSE, is_sunk |-> FALSE,
           out |-> "none", src |-> "none", ret |-> <<>>]

\* A call of get_next_attack with result a.
CallNextAttack(a) ==
  /\ SetPlanner(a.st)
  /\ last' = [op |-> "get_next_attack", x |-> a.x, y |-> a.y, is_hit |-> FALSE,
              is_sunk |-> FALSE, out |-> a.out, src |-> a.src, ret |-> <<>>]

\* A call of register_attack on the planner state st; src tells where the
\* coordinate came from.
CallRegisterAttack(st, x, y, is_hit, is_sunk, src) ==
  LET r == RegisterAttack(st, x, y, is_hit, is_sunk) IN
  /\ SetPlanner(r.st)
  /\ last' = [op |-> "register_attack", x |-> x, y |-> y, is_hit |-> is_hit,
              is_sunk |-> is_sunk, out |-> r.out, src |-> src, ret |-> <<>>]
  /\ ncalls' = ncalls + 1
  /\ registered' = registered \cup {<<x, y>>}
  /\ pruned' =
       IF is_hit /\ is_sunk /\ r.out = "ok"
       THEN pruned \cup
            {c \in Cells(cols, rows) :
               \E h \in SetOfSeq(st.current_hits) \cup {<<x, y>>} : Adjacent(c, h)}
       ELSE pruned

\* A call of an observer: all_ships_sunk returns a bool, get_remaining_ships
\* the dict of remaining counts.
CallObserver(op, out, ret, st) ==
  /\ SetPlanner(st)
  /\ last' = [op |-> op, x |-> 0, y |-> 0, is_hit |-> FALSE, is_sunk |-> FALSE,
              out |-> out, src |-> "none", ret |-> ret]

\* No call was made on the BoardSetup object yet.
NoBoardCall ==
  [n |-> 0, op |-> "none", out |-> "none", grid |-> <<>>,
   stats |-> [empty_spaces |-> 0, occupied_spaces |-> 0]]

\* No BoardSetup object takes part.
NoBoard ==
  /\ b_rows = 0
  /\ b_cols = 0
  /\ b_ships_dict = <<>>
  /\ board = <<>>
  /\ work = <<>>
  /\ todo = <<>>
  /\ tries = 0
  /\ restarts = 0
  /\ placed = {}
  /\ p_pc = "none"
  /\ b_last = NoBoardCall

HistoryInit ==
  /\ last = NoCall
  /\ ncalls = 0
  /\ registered = {}
  /\ pruned = {}

\* ------------------------------------------------- the planner's callers
\* A caller that uses the public methods in any order, registering each
\* in-bounds coordinate at most once.
ApiInit ==
  /\ \E d \in {SmallCatalog, BiggerCatalog} : StrategyInit(ApiRows, ApiCols, d)
  /\ HistoryInit
  /\ pc = "api"
  /\ fleet = {}
  /\ struck = {}
  /\ NoBoard

ApiNextAttack ==
  /\ pc = "api"
  /\ \E a \in GetNextAttack(Cur) : CallNextAttack(a)
  /\ UNCHANGED <<ncalls, registered, pruned, pc, fleet, struck, boardVars>>

ApiRegister ==
  /\ pc = "api"
  /\ ncalls < MaxCalls
  /\ \E c \in Cells(cols, rows) \ registered : \E is_hit, is_sunk \in BOOLEAN :
       CallRegisterAttack(Cur, c[1], c[2], is_hit, is_sunk, "caller")
  /\ UNCHANGED <<pc, fleet, struck, boardVars>>

ApiAllShipsSunk ==
  /\ pc = "api"
  /\ LET r == AllShipsSunkCall(Cur)
     IN CallObserver("all_ships_sunk", IF r.ret THEN "True" ELSE "False", <<>>, r.st)
  /\ UNCHANGED <<ncalls, registered, pruned, pc, fleet, struck, boardVars>>

ApiGetRemainingShips ==
  /\ pc = "api"
  /\ LET r == GetRemainingShips(Cur)
     IN CallObserver("get_remaining_ships", "dict", r.ret, r.st)
  /\ UNCHANGED <<ncalls, registered, pruned, pc, fleet, struck, boardVars>>

Next == ApiNextAttack \/ ApiRegister \/ ApiAllShipsSunk \/ ApiGetRemainingShips

Spec == ApiInit /\ [][Next]_vars

\* The same caller without the restriction to in-bounds coordinates.
RawCoords ==
  {<<x, y>> : x \in {-(cols + 1), -1} \cup (0..cols),
              y \in {-(rows + 1), -1} \cup (0..rows)}

RawRegister ==
  /\ pc = "api"
  /\ ncalls < MaxCalls
  /\ \E c \in RawCoords \ registered : \E is_hit, is_sunk \in BOOLEAN :
       CallRegisterAttack(Cur, c[1], c[2], is_hit, is_sunk, "caller")
  /\ UNCHANGED <<pc, fleet, struck, boardVars>>

RawNext == ApiNextAttack \/ RawRegister

SpecRaw == ApiInit /\ [][RawNext]_vars

\* A caller that registers any in-bounds coordinate, fired before or not.
AnyRegister ==
  /\ pc = "api"
  /\ ncalls < MaxCalls
  /\ \E c \in Cells(cols, rows) : \E is_hit, is_sunk \in BOOLEAN :
       CallRegisterAttack(Cur, c[1], c[2], is_hit, is_sunk, "caller")
  /\ UNCHANGED <<pc, fleet, struck, boardVars>>

AnyNext == ApiNextAttack \/ AnyRegister

SpecAny == ApiInit /\ [][AnyNext]_vars

\* ------------------------------------------------------- the harness loop
\* The driving harness: loop { nextAttack; apply it to the opponent's true
\* grid; registerResult } until allShipsSunk().  The true grid holds straight
\* ships that satisfy the placement invariants.

\* Number of cells of the straight ship with this id (ID=1 => length 2,
\* ID=2 => length 3, ID=3 => length 4).
ShipSize(id) == id + 1

\* The straight placements of n cells on a c x r grid.
Segments(n, c, r) ==
  {{<<x + i, y>> : i \in 0..(n - 1)} : x \in 0..(c - n), y \in 0..(r - 1)}
  \cup {{<<x, y + i>> : i \in 0..(n - 1)} : x \in 0..(c - 1), y \in 0..(r - n)}

\* Two cell sets overlap or touch by a side.
Touching(A, B) == \E a \in A, b \in B : a = b \/ Adjacent(a, b)

\* Grid invariants (ii)-(iv): every instance is a straight in-bounds segment
\* of its size, and distinct instances neither overlap nor touch.
ValidFleet(F, c, r) ==
  /\ \A s \in F : s.cells \in Segments(ShipSize(s.id), c, r)
  /\ \A s, t \in F : s # t => ~Touching(s.cells, t.cells)

\* Every true grid that holds exactly the ships of the catalog d.
Fleets(d, c, r) ==
  LET Inst == {i \in {<<id, k>> : id \in DOMAIN d,
                                  k \in 1..Max({d[j] : j \in DOMAIN d})} :
                 i[2] <= d[i[1]]}
      segs == UNION {Segments(ShipSize(id), c, r) : id \in DOMAIN d}
      cand == {{[id |-> i[1], cells |-> f[i]] : i \in Inst} : f \in [Inst -> segs]}
  IN {F \in cand : /\ ValidFleet(F, c, r)
                   /\ \A id \in DOMAIN d :
                        Cardinality({s \in F : s.id = id}) = d[id]}

GameCatalogs == {(1 :> 0), (1 :> 1), (2 :> 1), (3 :> 1), (1 :> 2), SmallCatalog}

HarnessInit ==
  /\ \E d \in GameCatalogs :
       /\ StrategyInit(GameRows, GameCols, d)
       /\ fleet \in Fleets(d, GameCols, GameRows)
  /\ struck = {}
  /\ HistoryInit
  /\ pc = "loop"
  /\ NoBoard

\* until allShipsSunk()
HarnessDone ==
  /\ pc = "loop"
  /\ AllShipsSunk
  /\ pc' = "done"
  /\ UNCHANGED <<strategyVars, last, ncalls, registered, pruned, fleet, struck,
                 boardVars>>

\* One turn of the loop: nextAttack, apply against the true grid,
\* registerResult with truthful feedback.  A result that is no coordinate
\* cannot be applied to the grid and ends the loop.
HarnessTurn ==
  /\ pc = "loop"
  /\ ~AllShipsSunk
  /\ \E a \in GetNextAttack(Cur) :
       IF a.out # "coord"
       THEN /\ CallNextAttack(a)
            /\ pc' = "crashed"
            /\ UNCHANGED <<ncalls, registered, pruned, struck>>
       ELSE LET c == <<a.x, a.y>>
                is_hit == \E s \in fleet : c \in s.cells
                struck1 == IF is_hit THEN struck \cup {c} ELSE struck
                is_sunk == \E s \in fleet : c \in s.cells /\ s.cells \subseteq struck1
            IN /\ CallRegisterAttack(a.st, a.x, a.y, is_hit, is_sunk, a.src)
               /\ struck' = struck1
               /\ pc' = "loop"
  /\ UNCHANGED <<fleet, boardVars>>

HarnessNext == HarnessDone \/ HarnessTurn

SpecHarness == HarnessInit /\ [][HarnessNext]_vars

\* ------------------------------------------------------------ BoardSetup
\* BoardSetup.__init__
BoardSetupInit(r, c, d) ==
  /\ b_rows = r
  /\ b_cols = c
  /\ b_ships_dict = d
  /\ board = [y \in 0..(r - 1) |-> [x \in 0..(c - 1) |-> 0]]

EmptyGrid == [y \in 0..(b_rows - 1) |-> [x \in 0..(b_cols - 1) |-> 0]]

NoStats == [empty_spaces |-> 0, occupied_spaces |-> 0]

\* The next call on the BoardSetup object, with what it returns.
BoardCall(op, out, grid, stats) ==
  b_last' = [n |-> b_last.n + 1, op |-> op, out |-> out, grid |-> grid,
             stats |-> stats]

\* A call returns only while no place_ships call is running.
BoardAtRest == p_pc \in {"idle", "placed", "failed"}

\* board_stats that counts the ships on the grid instead of their cells.
BoardStatsShipIds(g) ==
  [empty_spaces |-> Cardinality({c \in Cells(b_cols, b_rows) : g[c[2]][c[1]] = 0}),
   occupied_spaces |-> Cardinality({g[c[2]][c[1]] : c \in Cells(b_cols, b_rows)} \ {0})]

\* BoardSetup.board_stats: a cell holding 0 is empty, any other is occupied.
BoardStats(g) ==
  [empty_spaces |-> Cardinality({c \in Cells(b_cols, b_rows) : g[c[2]][c[1]] = 0}),
   occupied_spaces |-> Cardinality({c \in Cells(b_cols, b_rows) : g[c[2]][c[1]] # 0})]

\* reset_board that clears the first row only.
ResetBoardFirstRow(g) ==
  [y \in DOMAIN g |-> [x \in DOMAIN g[y] |-> IF y = 0 THEN 0 ELSE g[y][x]]]

\* BoardSetup.reset_board: every cell back to 0 (water).
ResetBoard(g) == [y \in DOMAIN g |-> [x \in DOMAIN g[y] |-> 0]]

\* BoardSetup.get_board
GetBoardCall ==
  /\ BoardAtRest
  /\ b_last.n < MaxBoardCalls
  /\ BoardCall("get_board", "ok", board, NoStats)
  /\ UNCHANGED <<b_rows, b_cols, b_ships_dict, board, work, todo, tries,
                 restarts, placed, p_pc, plannerVars>>

\* BoardSetup.board_stats
BoardStatsCall ==
  /\ BoardAtRest
  /\ b_last.n < MaxBoardCalls
  /\ BoardCall("board_stats", "ok", <<>>, BoardStats(board))
  /\ UNCHANGED <<b_rows, b_cols, b_ships_dict, board, work, todo, tries,
                 restarts, placed, p_pc, plannerVars>>

\* BoardSetup.reset_board: the board is cleared and nothing is placed again.
ResetBoardCall ==
  /\ BoardAtRest
  /\ b_last.n < MaxBoardCalls
  /\ board' = ResetBoard(board)
  /\ p_pc' = "idle"
  /\ BoardCall("reset_board", "None", <<>>, NoStats)
  /\ UNCHANGED <<b_rows, b_cols, b_ships_dict, work, todo, tries, restarts,
                 placed, plannerVars>>

\* Canonical shape of a ship id, as (dcol, drow) offsets from the anchor:
\* ids 1..3 are straight ships of 2..4 cells, id 5 is the L of four cells.
Shape(id) ==
  CASE id = 1 -> {<<0, 0>>, <<1, 0>>}
    [] id = 2 -> {<<0, 0>>, <<1, 0>>, <<2, 0>>}
    [] id = 3 -> {<<0, 0>>, <<1, 0>>, <<2, 0>>, <<3, 0>>}
    [] id = 5 -> {<<0, 0>>, <<1, 0>>, <<2, 0>>, <<2, 1>>}

\* The eight rotations and reflections of an offset.
Transform(k, o) ==
  CASE k = 0 -> <<o[1], o[2]>>
    [] k = 1 -> <<-o[2], o[1]>>
    [] k = 2 -> <<-o[1], -o[2]>>
    [] k = 3 -> <<o[2], -o[1]>>
    [] k = 4 -> <<-o[1], o[2]>>
    [] k = 5 -> <<o[2], o[1]>>
    [] k = 6 -> <<o[1], -o[2]>>
    [] k = 7 -> <<-o[2], -o[1]>>

\* The allowed orientations of a ship id's shape.
Orientations(id) == {{Transform(k, o) : o \in Shape(id)} : k \in 0..7}

\* The absolute cells of an orientation anchored at a.
ShapeCells(a, orient) == {<<a[1] + o[1], a[2] + o[2]>> : o \in orient}

\* The in-bounds cells next to a cell of cs by a side, cs's own cells excluded.
Border(cs) ==
  {n \in Cells(b_cols, b_rows) : n \notin cs /\ \E c \in cs : Adjacent(n, c)}

\* Acceptance of a sampled placement that only compares ship ids, so that
\* a neighbour of the same id does not count as a different ship.
AcceptByShipId(cs, id, g) ==
  /\ \A c \in cs : c \in Cells(b_cols, b_rows) /\ g[c[2]][c[1]] = 0
  /\ \A n \in Border(cs) : g[n[2]][n[1]] \in {0, id}

\* Acceptance of a sampled placement on the grid g: (a) in bounds, (b) all
\* cells empty, (c) no neighbouring cell occupied by a different ship.
Accept(cs, id, g) ==
  /\ \A c \in cs : c \in Cells(b_cols, b_rows) /\ g[c[2]][c[1]] = 0
  /\ \A n \in Border(cs) : g[n[2]][n[1]] = 0

\* The ids of the ship instances of a catalog, one entry per instance.
RECURSIVE ExpandCatalog(_, _)
ExpandCatalog(d, D) ==
  IF D = {} THEN <<>>
  ELSE LET id == Min(D)
       IN [i \in 1..d[id] |-> id] \o ExpandCatalog(d, D \ {id})

\* place_ships is called.
PlaceStart ==
  /\ p_pc = "idle"
  /\ b_last.n < MaxBoardCalls
  /\ p_pc' = "placing"
  /\ work' = EmptyGrid
  /\ todo' = ExpandCatalog(b_ships_dict, DOMAIN b_ships_dict)
  /\ tries' = 0
  /\ restarts' = 0
  /\ placed' = {}
  /\ BoardCall("place_ships", "running", <<>>, NoStats)
  /\ UNCHANGED <<b_rows, b_cols, b_ships_dict, board, plannerVars>>

\* One sample for the next instance: a random anchor and orientation,
\* placed when accepted, counted against the retry budget when not.
PlaceTry ==
  /\ p_pc = "placing"
  /\ todo # <<>>
  /\ tries < MaxTries
  /\ \E a \in Cells(b_cols, b_rows), orient \in Orientations(Head(todo)) :
       LET id == Head(todo)
           cs == ShapeCells(a, orient)
       IN IF Accept(cs, id, work)
          THEN /\ work' = [y \in DOMAIN work |-> [x \in DOMAIN work[y] |->
                             IF <<x, y>> \in cs THEN id ELSE work[y][x]]]
               /\ placed' = placed \cup {[id |-> id, cells |-> cs]}
               /\ todo' = Tail(todo)
               /\ tries' = 0
          ELSE /\ tries' = tries + 1
               /\ UNCHANGED <<work, placed, todo>>
  /\ UNCHANGED <<b_rows, b_cols, b_ships_dict, board, restarts, p_pc, b_last,
                 plannerVars>>

\* The retry budget of an instance is spent: start again from the empty grid.
PlaceRestart ==
  /\ p_pc = "placing"
  /\ todo # <<>>
  /\ tries = MaxTries
  /\ restarts < MaxRestarts
  /\ work' = EmptyGrid
  /\ todo' = ExpandCatalog(b_ships_dict, DOMAIN b_ships_dict)
  /\ tries' = 0
  /\ restarts' = restarts + 1
  /\ placed' = {}
  /\ UNCHANGED <<b_rows, b_cols, b_ships_dict, board, p_pc, b_last, plannerVars>>

\* place_ships that gives up with the grid built so far left on the board.
PlaceFailKeepsWork ==
  /\ p_pc = "placing"
  /\ todo # <<>>
  /\ tries = MaxTries
  /\ restarts = MaxRestarts
  /\ p_pc' = "failed"
  /\ board' = work
  /\ b_last' = [b_last EXCEPT !.out = "ValueError"]
  /\ UNCHANGED <<b_rows, b_cols, b_ships_dict, work, todo, tries,
                 restarts, placed, plannerVars>>

\* Both budgets are spent: PlacementError, the board is left as it was.
PlaceFail ==
  /\ p_pc = "placing"
  /\ todo # <<>>
  /\ tries = MaxTries
  /\ restarts = MaxRestarts
  /\ p_pc' = "failed"
  /\ b_last' = [b_last EXCEPT !.out = "ValueError"]
  /\ UNCHANGED <<b_rows, b_cols, b_ships_dict, board, work, todo, tries,
                 restarts, placed, plannerVars>>

\* Every instance is placed: the grid becomes the board.
PlaceDone ==
  /\ p_pc = "placing"
  /\ todo = <<>>
  /\ board' = work
  /\ p_pc' = "placed"
  /\ b_last' = [b_last EXCEPT !.out = "None"]
  /\ UNCHANGED <<b_rows, b_cols, b_ships_dict, work, todo, tries, restarts,
                 placed, plannerVars>>

PlaceCatalogs == {<<>>, (1 :> 1), (1 :> 2), SmallCatalog, (3 :> 1), (5 :> 1)}

PlaceInit ==
  /\ \E d \in PlaceCatalogs : BoardSetupInit(PlaceRows, PlaceCols, d)
  /\ work = board
  /\ todo = <<>>
  /\ tries = 0
  /\ restarts = 0
  /\ placed = {}
  /\ p_pc = "idle"
  /\ b_last = NoBoardCall
  /\ StrategyInit(0, 0, <<>>)
  /\ HistoryInit
  /\ pc = "none"
  /\ fleet = {}
  /\ struck = {}

\* The steps of a running place_ships call.
PlaceStep == PlaceTry \/ PlaceRestart \/ PlaceFail \/ PlaceDone

PlaceNext ==
  \/ PlaceStart \/ PlaceTry \/ PlaceRestart \/ PlaceFail \/ PlaceDone
  \/ GetBoardCall \/ BoardStatsCall \/ ResetBoardCall

SpecPlace == PlaceInit /\ [][PlaceNext]_vars

\* The calls are synchronous: a place_ships call that has started runs on
\* until it returns or raises.
SpecPlaceFair == SpecPlace /\ WF_vars(PlaceStep)

\* ------------------------------------------------------------ properties
\* A step that is a call of register_attack / of get_next_attack alone.
IsRegisterStep == ncalls' = ncalls + 1
IsNextAttackStep == ncalls' = ncalls /\ last'.op = "get_next_attack" /\ pc' = pc

\* C1: in the harness loop every coordinate get_next_attack returns is in
\* bounds and was not passed to register_attack before, so the N calls of
\* register_attack have registered N distinct in-bounds coordinates.
C1_NextAttackUnfiredInBounds ==
  /\ registered \subseteq Cells(cols, rows)
  /\ Cardinality(registered) = ncalls

\* C2: once a knowledge-grid cell holds 'H' or 'M', no call on a coordinate
\* not fired before changes it; a cell marked 'H' is still 'H' after the sink.
C2_KnowledgeMonotonic ==
  [][registered' # registered =>
       \A c \in Cells(cols, rows) :
         enemy_board[c[2]][c[1]] # "?" =>
           enemy_board'[c[2]][c[1]] = enemy_board[c[2]][c[1]]]_vars

\* C3: every register_attack with is_hit and is_sunk, made while a remaining
\* count is positive, lowers the sum of the remaining counts by exactly 1.
C3_SinkAccounting ==
  [][(IsRegisterStep /\ last'.is_hit /\ last'.is_sunk /\ RemainingSum(ships_dict) > 0)
       => RemainingSum(ships_dict') = RemainingSum(ships_dict) - 1]_vars

\* C4: driven by the harness against a valid true grid with truthful
\* feedback, all_ships_sunk() is true before get_next_attack runs out of
\* candidate coordinates: the loop never stands with nothing left to fire at
\* while ships are believed afloat, and never ends on a missing coordinate.
C4_AllSunkBeforeCandidatesRunOut ==
  /\ pc # "crashed"
  /\ (hit_queue = <<>> /\ available_shots = {}) => AllShipsSunk

\* C5: after N register_attack calls on distinct in-bounds coordinates the
\* candidate set is all cells minus those N coordinates and minus the
\* in-bounds orthogonal neighbours of the runs resolved by a sink.
C5_ShotExclusivity ==
  /\ Cardinality(registered) = ncalls
  /\ available_shots = Cells(cols, rows) \ (registered \cup pruned)

\* Two calls, one a sink that pruned a neighbour nobody fired at, and
\* candidates still left.
C5_Witness ==
  /\ ncalls = 2
  /\ pruned \ registered # {}
  /\ available_shots # {}
  /\ last.is_sunk

\* C6: with a non-empty pending queue get_next_attack returns and removes the
\* front of the queue and makes no random draw; with an empty queue it draws
\* and leaves the queue alone; register_attack only appends at the back.
C6_TargetModeFifo ==
  [][/\ (IsNextAttackStep /\ hit_queue # <<>>) =>
          /\ last'.out = "coord"
          /\ last'.src = "queue"
          /\ <<last'.x, last'.y>> = Head(hit_queue)
          /\ hit_queue' = Tail(hit_queue)
     /\ (IsNextAttackStep /\ hit_queue = <<>>) =>
          /\ last'.src = "random"
          /\ hit_queue' = hit_queue
     /\ (IsRegisterStep /\ last'.is_hit /\ ~last'.is_sunk) =>
          /\ Len(hit_queue') >= Len(hit_queue)
          /\ SubSeq(hit_queue', 1, Len(hit_queue)) = hit_queue]_vars

\* The queue held two different coordinates, the first was just returned and
\* the second is still pending.
C6_Witness ==
  /\ last.op = "get_next_attack"
  /\ last.src = "queue"
  /\ hit_queue # <<>>
  /\ Head(hit_queue) # <<last.x, last.y>>
  /\ current_hits # <<>>

\* C7: register_attack with a coordinate outside the grid ends in an error,
\* and no knowledge-grid cell changes.
C7_OutOfRangeRejected ==
  [][(IsRegisterStep /\ ~InBounds(last'.x, last'.y))
       => (last'.out # "ok" /\ enemy_board' = enemy_board)]_vars

\* C8: get_next_attack never returns a value that is no coordinate.
C8_NoSentinel == ~(last.op = "get_next_attack" /\ last.out = "None")

\* C9: a register_attack with is_sunk = False leaves every remaining count
\* and all_ships_sunk() as they were; a hit that is not a sink marks exactly
\* the attacked cell 'H'.
C9_NoSinkNoAccounting ==
  [][(IsRegisterStep /\ ~last'.is_sunk) =>
       /\ ships_dict' = ships_dict
       /\ AllShipsSunk' = AllShipsSunk
       /\ last'.is_hit =>
            enemy_board' = [enemy_board EXCEPT ![last'.y][last'.x] = "H"]]_vars

\* A hit that is not a sink was just registered on a cell that was unknown.
C9_Witness ==
  /\ last.op = "register_attack"
  /\ last.is_hit
  /\ ~last.is_sunk
  /\ enemy_board[last.y][last.x] = "H"
  /\ ncalls = 2

CatalogCells ==
  SumOver([id \in DOMAIN b_ships_dict |->
             b_ships_dict[id] * Cardinality(Shape(id))], DOMAIN b_ships_dict)

\* Some ship of the catalog fits the grid in no position and orientation.
Unsatisfiable ==
  \E id \in DOMAIN b_ships_dict :
    /\ b_ships_dict[id] > 0
    /\ \A a \in Cells(b_cols, b_rows), orient \in Orientations(id) :
         ~(ShapeCells(a, orient) \subseteq Cells(b_cols, b_rows))

\* A step that is the call op on the BoardSetup object.
IsBoardCall(op) == b_last'.n = b_last.n + 1 /\ b_last'.op = op

C14_MissFrame ==
  [][(IsRegisterStep /\ ~last'.is_hit) =>
       /\ enemy_board' = [enemy_board EXCEPT ![last'.y][last'.x] = "M"]
       /\ available_shots' = available_shots \ {<<last'.x, last'.y>>}
       /\ hit_queue' = hit_queue
       /\ current_hits' = current_hits
       /\ ships_dict' = ships_dict
       /\ (hit_queue' = <<>>) = (hit_queue = <<>>)]_vars

\* A miss was registered in Target mode, on a cell that was a candidate.
C14_Witness ==
  /\ last.op = "register_attack"
  /\ ~last.is_hit
  /\ ncalls = 2
  /\ hit_queue # <<>>
  /\ current_hits # <<>>
  /\ enemy_board[last.y][last.x] = "M"
  /\ <<last.x, last.y>> \notin available_shots

\* What a register_attack step added at the back of the pending queue.
Enqueued == SubSeq(hit_queue', Len(hit_queue) + 1, Len(hit_queue'))

\* The cells just beyond the two ends of the run along the row (axis 2) or
\* the column (axis 1) that all its cells share.
BeyondExtremes(run, axis) ==
  LET along == IF axis = 2 THEN 1 ELSE 2
      fixed == (CHOOSE h \in run : TRUE)[axis]
      lo == Min({h[along] : h \in run}) - 1
      hi == Max({h[along] : h \in run}) + 1
  IN IF axis = 2 THEN {<<lo, fixed>>, <<hi, fixed>>}
     ELSE {<<fixed, lo>>, <<fixed, hi>>}

SharesAxis(run, axis) == \A g, h \in run : g[axis] = h[axis]

\* C15 as stated: on a hit that is no sink the coordinates enqueued are, for
\* a run of one cell, its in-bounds neighbours still in the candidate set,
\* and for every longer run the two cells beyond the ends of the run along
\* the axis all run cells share, filtered the same way.
C15_TargetCellsAlongSharedAxis ==
  [][(IsRegisterStep /\ last'.is_hit /\ ~last'.is_sunk) =>
       LET run == SetOfSeq(current_hits')
       IN /\ SubSeq(hit_queue', 1, Len(hit_queue)) = hit_queue
          /\ IF Len(current_hits') = 1
             THEN SetOfSeq(Enqueued) =
                    {n \in available_shots' : \E h \in run : Adjacent(n, h)}
             ELSE \E axis \in {1, 2} :
                    /\ SharesAxis(run, axis)
                    /\ SetOfSeq(Enqueued) =
                         BeyondExtremes(run, axis) \cap available_shots'
    ]_vars

\* C15, amended: the same for a run of one cell and for a longer run whose
\* cells lie in one column or in one row; a run whose cells share neither is
\* treated as lying in the row of its first cell: the cells enqueued are the
\* one left of the run's lowest column and the one right of its highest
\* column, both in that row, when they are still candidates.
C15_TargetCells ==
  [][(IsRegisterStep /\ last'.is_hit /\ ~last'.is_sunk) =>
       LET run == SetOfSeq(current_hits')
           first == current_hits'[1]
       IN /\ SubSeq(hit_queue', 1, Len(hit_queue)) = hit_queue
          /\ Len(Enqueued) <= 4
          /\ IF Len(current_hits') = 1
             THEN SetOfSeq(Enqueued) =
                    {n \in available_shots' : \E h \in run : Adjacent(n, h)}
             ELSE IF SharesAxis(run, 1)
             THEN SetOfSeq(Enqueued) = BeyondExtremes(run, 1) \cap available_shots'
             ELSE IF SharesAxis(run, 2)
             THEN SetOfSeq(Enqueued) = BeyondExtremes(run, 2) \cap available_shots'
             ELSE SetOfSeq(Enqueued) =
                    {<<Min({h[1] : h \in run}) - 1, first[2]>>,
                     <<Max({h[1] : h \in run}) + 1, first[2]>>}
                    \cap available_shots'
    ]_vars

\* A second hit in the row of the first was registered and the cell beyond
\* the run's end is at the back of the pending queue.
C15_Witness ==
  /\ last.op = "register_attack"
  /\ last.is_hit
  /\ ~last.is_sunk
  /\ Len(current_hits) = 2
  /\ current_hits[1][2] = current_hits[2][2]
  /\ Adjacent(current_hits[1], current_hits[2])
  /\ hit_queue # <<>>
  /\ hit_queue[Len(hit_queue)][2] = current_hits[1][2]
  /\ \E h \in SetOfSeq(current_hits) : Adjacent(hit_queue[Len(hit_queue)], h)

\* C16: right after a register_attack with is_hit and is_sunk the run and
\* the pending queue are empty, every in-bounds cell next to a cell of the
\* resolved run is out of the candidate set, each such cell outside the run
\* is 'M', and the get_next_attack that follows is a random draw.
C16_SinkResolution ==
  [][/\ (IsRegisterStep /\ last'.is_hit /\ last'.is_sunk) =>
          LET run == SetOfSeq(current_hits) \cup {<<last'.x, last'.y>>}
          IN /\ current_hits' = <<>>
             /\ hit_queue' = <<>>
             /\ \A n \in Cells(cols, rows) :
                  (\E h \in run : Adjacent(n, h)) =>
                    /\ n \notin available_shots'
                    /\ n \notin run => enemy_board'[n[2]][n[1]] = "M"
     /\ (IsNextAttackStep /\ last.op = "register_attack"
           /\ last.is_hit /\ last.is_sunk) => last'.src = "random"
    ]_vars

\* A sink resolved a run of two cells: a cell next to the first hit only,
\* which nobody fired at, is 'M' and no candidate.
C16_Witness ==
  /\ last.op = "register_attack"
  /\ last.is_hit
  /\ last.is_sunk
  /\ ncalls = 2
  /\ current_hits = <<>>
  /\ \E n \in pruned \ registered :
       /\ ~Adjacent(n, <<last.x, last.y>>)
       /\ enemy_board[n[2]][n[1]] = "M"
       /\ n \notin available_shots

\* C17: on a sink with a run of L cells the count that goes down is the one
\* of the lowest ship id of size L whose remaining count is positive, and no
\* other count changes.
C17_SunkShipIdentified ==
  [][(IsRegisterStep /\ last'.is_hit /\ last'.is_sunk) =>
       LET L == Len(current_hits) + 1
           match == {id \in DOMAIN ships_dict :
                       ShipSize(id) = L /\ ships_dict[id] > 0}
       IN IF match = {} THEN ships_dict' = ships_dict
          ELSE ships_dict' = [ships_dict EXCEPT ![Min(match)] = @ - 1]
    ]_vars

\* C18: every remaining count stays >= 0 and never goes up; all_ships_sunk()
\* is true exactly when the remaining counts sum to 0; all_ships_sunk() and
\* get_remaining_ships() leave the planner as it was.
C18_CountsMonotone ==
  /\ [](/\ \A k \in DOMAIN ships_dict : ships_dict[k] >= 0
        /\ AllShipsSunk <=> (RemainingSum(ships_dict) = 0)
        /\ last.op = "all_ships_sunk" =>
             ((last.out = "True") <=> (RemainingSum(ships_dict) = 0))
        /\ last.op = "get_remaining_ships" => last.ret = ships_dict)
  /\ [][/\ DOMAIN ships_dict' = DOMAIN ships_dict
        /\ \A k \in DOMAIN ships_dict : ships_dict'[k] <= ships_dict[k]
        /\ last'.op \in {"all_ships_sunk", "get_remaining_ships"} =>
             UNCHANGED strategyVars]_vars

\* A second one-cell sink was registered when the count under key 1 was
\* already 0.
C18_Witness ==
  /\ last.op = "register_attack"
  /\ last.is_hit
  /\ last.is_sunk
  /\ ncalls = 2
  /\ ships_dict = (1 :> 0) @@ (2 :> 1)
  /\ Cardinality({c \in Cells(cols, rows) : enemy_board[c[2]][c[1]] = "H"}) = 2

\* C19: in the harness loop, with a valid true grid and truthful feedback, a
\* ship cell that was not fired at is still a candidate and still '?'.
C19_PruningSound ==
  \A s \in fleet : \A c \in s.cells :
    c \notin registered =>
      /\ c \in available_shots
      /\ enemy_board[c[2]][c[1]] = "?"

\* A sink pruned a cell nobody fired at while a cell of another ship is
\* still to be found.
C19_Witness ==
  /\ last.op = "register_attack"
  /\ last.is_sunk
  /\ pruned \ registered # {}
  /\ \E s \in fleet : \E c \in s.cells : c \notin registered

\* C20: in the harness loop the run holds cells of one ship only, each at
\* most once, and when a sink is registered the run with the cell just hit
\* is exactly the cell set of one ship, so its length is that ship's size.
C20_RunIntegrity ==
  [][/\ Cardinality(SetOfSeq(current_hits')) = Len(current_hits')
     /\ current_hits' # <<>> =>
          \E s \in fleet : SetOfSeq(current_hits') \subseteq s.cells
     /\ (IsRegisterStep /\ last'.is_hit /\ last'.is_sunk) =>
          \E s \in fleet :
            /\ SetOfSeq(current_hits) \cup {<<last'.x, last'.y>>} = s.cells
            /\ Len(current_hits) + 1 = Cardinality(s.cells)
    ]_vars

\* C21: after any sequence of register_attack calls with in-bounds
\* coordinates a cell is in available_shots exactly when its knowledge-grid
\* symbol is '?', no coordinate of shots_fired is in available_shots, and
\* every coordinate of missed_shots is in shots_fired.
C21_CandidatesMatchGrid ==
  /\ \A c \in Cells(cols, rows) :
       (c \in available_shots) <=> (enemy_board[c[2]][c[1]] = "?")
  /\ available_shots \cap shots_fired = {}
  /\ missed_shots \subseteq shots_fired

\* A miss and a sink were registered: a cell nobody fired at is 'M' and no
\* candidate, and candidates are left.
C21_Witness ==
  /\ ncalls = 2
  /\ missed_shots # {}
  /\ last.op = "register_attack"
  /\ last.is_hit
  /\ last.is_sunk
  /\ \E c \in Cells(cols, rows) \ shots_fired :
       enemy_board[c[2]][c[1]] = "M" /\ c \notin available_shots
  /\ available_shots # {}

====
